---- MODULE Spec2Model ----
(***************************************************************************)
(* GoodFaith: moral-reasoning questionnaire.  A model of the session       *)
(* store (lib/core/storage.ts), the RAG system (lib/rag/index.ts), the     *)
(* candidate generator (lib/rag/embedding.ts) and the analysis service     *)
(* (lib/core/analysis.ts).                                                 *)
(*                                                                         *)
(* Conventions.  Question ids are the positions 1..18 of the seeded        *)
(* question bank (uuidv4 in the code: only equality of ids is used).       *)
(* Contradiction ids are the position at which the contradiction was       *)
(* appended (uuidv4 in the code; contradictions are never removed, so the  *)
(* position is a unique id).  Similarity weights are scaled by 100         *)
(* (1.0 -> 100, 0.8 + 0.05 k -> 80 + 5 k, 0.7 -> 70, 0.6 -> 60).           *)
(* The timestamp of a resolution is the number of the resolveContradiction *)
(* call that wrote it (a logical clock for new Date()).                    *)
(***************************************************************************)
EXTENDS Integers, Sequences, FiniteSets, TLC

\* ------------------------------------------------------------------ bounds
\* submitAnswer is offered while the session holds fewer answers than this.
MaxAnswers == 3
\* submitAnswer is called with question ids 1..MaxSubmitId (and one unknown id).
MaxSubmitId == 3
\* resolveContradiction is offered while fewer than this many resolutions happened.
MaxResolutions == 2
\* getNextQuestion generates at most this many questions at the last stage.
MaxGenerated == 1
\* The scoring runs start from sessions with up to this many contradictions.
MaxScoreContradictions == 12
\* The candidate runs use banks whose first question has up to this many links.
MaxLinked == 6
\* The generated-question runs use banks with up to this many generated questions.
MaxGeneratedBank == 5
\* The feedback runs start from sessions with up to this many contradictions.
MaxFeedbackContradictions == 2

\* ------------------------------------------------------- program constants
UniversalPrinciples == 6
MinAnsweredInStage == 3
MaxCandidates == 5
MinTagOverlap == 2
SubstantialAnswerLength == 20
MinAnswersForOracle == 3

\* ---------------------------------------------------------------- helpers
Min(a, b) == IF a < b THEN a ELSE b
Max(a, b) == IF a > b THEN a ELSE b

Range(s) == {s[i] : i \in 1..Len(s)}

\* Math.round on a non-negative ratio num/den (half rounds up).
RoundDiv(num, den) == (2 * num + den) \div (2 * den)

\* The mean as it would be if the half were dropped instead of rounded up.
RoundHalfDown(a, b) == (a + b) \div 2

\* Math.round((a + b) / 2) for integers a, b (JS rounds half towards +infinity).
RoundHalf(a, b) == (a + b + 1) \div 2

\* ---------------------------------------------------------- knowledge base
\* populateInitialQuestions: the 18 seeded questions, three per stage.
InitialQuestions ==
  << [id |-> 1,  stage |-> 1, tags |-> {"honesty", "punishment", "authority"}],
     [id |-> 2,  stage |-> 1, tags |-> {"rules", "authority", "obedience"}],
     [id |-> 3,  stage |-> 1, tags |-> {"authority", "obedience", "punishment"}],
     [id |-> 4,  stage |-> 2, tags |-> {"fairness", "reciprocity", "self-interest"}],
     [id |-> 5,  stage |-> 2, tags |-> {"promises", "self-interest", "fairness"}],
     [id |-> 6,  stage |-> 2, tags |-> {"self-interest", "reciprocity", "fairness"}],
     [id |-> 7,  stage |-> 3, tags |-> {"relationships", "approval", "social norms"}],
     [id |-> 8,  stage |-> 3, tags |-> {"approval", "social norms", "identity"}],
     [id |-> 9,  stage |-> 3, tags |-> {"social norms", "approval", "conformity"}],
     [id |-> 10, stage |-> 4, tags |-> {"law", "social order", "justice", "civil disobedience"}],
     [id |-> 11, stage |-> 4, tags |-> {"equality", "social order", "justice"}],
     [id |-> 12, stage |-> 4, tags |-> {"social order", "individual rights", "collective good"}],
     [id |-> 13, stage |-> 5, tags |-> {"autonomy", "harm principle", "rights"}],
     [id |-> 14, stage |-> 5, tags |-> {"global justice", "social contract", "rights", "obligations"}],
     [id |-> 15, stage |-> 5, tags |-> {"intergenerational justice", "sustainability", "rights", "future people"}],
     [id |-> 16, stage |-> 6, tags |-> {"universality", "moral absolutism", "relativity"}],
     [id |-> 17, stage |-> 6, tags |-> {"intergenerational justice", "future people", "universality"}],
     [id |-> 18, stage |-> 6, tags |-> {"human dignity", "equality", "personhood", "universality"}] >>

HonestyOrRules(q) == "honesty" \in q.tags \/ "rules" \in q.tags
SelfInterestOrReciprocity(q) == "self-interest" \in q.tags \/ "reciprocity" \in q.tags

\* .map(q => q.id)
QuestionIds(qs) == [i \in 1..Len(qs) |-> qs[i].id]

\* The forEach that links questions: each question gets the ids of the other
\* questions of its group, and the second assignment overwrites the first.
RelatedQuestionIds(q) ==
  IF SelfInterestOrReciprocity(q)
  THEN QuestionIds(SelectSeq(InitialQuestions,
                             LAMBDA p : p.id # q.id /\ SelfInterestOrReciprocity(p)))
  ELSE IF HonestyOrRules(q)
  THEN QuestionIds(SelectSeq(InitialQuestions, LAMBDA p : p.id # q.id /\ HonestyOrRules(p)))
  ELSE << >>

\* The question bank as saved by populateInitialQuestions.
SeededQuestions ==
  [i \in 1..Len(InitialQuestions) |->
     [id |-> InitialQuestions[i].id,
      stage |-> InitialQuestions[i].stage,
      tags |-> InitialQuestions[i].tags,
      relatedQuestionIds |-> RelatedQuestionIds(InitialQuestions[i])]]

\* populateInitialFrameworks: the declared framework ids, in order.
FrameworkIds == << "deontological", "utilitarian", "virtueEthics", "careEthics", "contractarianism" >>

\* questions.find(q => q.id === id): the position of the first match, 0 for undefined.
FindQuestionIndex(qs, id) ==
  IF \E i \in 1..Len(qs) : qs[i].id = id
  THEN CHOOSE i \in 1..Len(qs) : qs[i].id = id /\ \A j \in 1..(i - 1) : qs[j].id # id
  ELSE 0

HasQuestion(qs, id) == FindQuestionIndex(qs, id) # 0

FindQuestion(qs, id) == qs[FindQuestionIndex(qs, id)]

\* ------------------------------------------------------------------ texts
\* Answer texts a user submits.  The model cannot look inside a string, so
\* what the code reads from a text (its length, the keywords it includes)
\* is tabulated below for exactly these texts.
TextShort == "No, never."
TextLong == "It is my duty to benefit others: good character, virtue and wisdom mean showing care, empathy and attention to their needs."
TextRevised == "It depends on who would be hurt."
NoText == ""

AnswerTexts == {TextLong}
NewAnswerTexts == {TextRevised}
ResolutionExplanation == "I changed my mind."

\* text.length
TextLength(t) ==
  CASE t = TextShort -> 10
    [] t = TextLong -> 123
    [] t = TextRevised -> 32
    [] OTHER -> 0

\* The number of entries of frameworkPatterns[fw] that text.toLowerCase() includes.
PatternMatches(fw, t) ==
  IF t = TextLong
  THEN CASE fw = "deontological" -> 1      \* duty
         [] fw = "utilitarian" -> 1        \* benefit
         [] fw = "virtueEthics" -> 3       \* character, virtue, wisdom
         [] fw = "careEthics" -> 3         \* care, empathy, needs
         [] OTHER -> 0
  ELSE 0

\* The number of principles p of framework fw with
\* tag.includes(p) || p.includes(tag), both lowercased, for the seeded tags.
TagPrincipleMatches(fw, tag) ==
  CASE fw = "deontological" /\ tag = "rules" -> 1          \* "universal rules"
    [] fw = "careEthics" /\ tag = "relationships" -> 1     \* "relationships"
    [] fw = "contractarianism" /\ tag = "fairness" -> 2    \* "fairness", "justice as fairness"
    [] fw = "contractarianism" /\ tag = "justice" -> 1     \* "justice as fairness"
    [] OTHER -> 0

\* ------------------------------------------------- candidate generation
\* similarQuestions.some(sq => sq.question.id === id)
Included(similarQuestions, id) ==
  \E i \in 1..Len(similarQuestions) : similarQuestions[i].question = id

\* The explicit-link loop: one entry of weight 1.0 per related id found in the
\* metadata, in the order of relatedQuestionIds.
RECURSIVE AddExplicit(_, _, _)
AddExplicit(acc, meta, relatedIds) ==
  IF Len(relatedIds) = 0 THEN acc
  ELSE AddExplicit(
         IF HasQuestion(meta, Head(relatedIds))
         THEN Append(acc, [question |-> Head(relatedIds), similarity |-> 100])
         ELSE acc,
         meta, Tail(relatedIds))

\* The tag-overlap loop over the metadata, from position i on.
RECURSIVE AddTagOverlap(_, _, _, _)
AddTagOverlap(acc, meta, cur, i) ==
  IF i > Len(meta) THEN acc
  ELSE LET question == meta[i]
           overlap == Cardinality(question.tags \cap cur.tags)
       IN AddTagOverlap(
            IF question.id = cur.id \/ Included(acc, question.id) THEN acc
            ELSE IF overlap >= MinTagOverlap
                 THEN Append(acc, [question |-> question.id, similarity |-> 80 + 5 * overlap])
                 ELSE acc,
            meta, cur, i + 1)

\* The loop over the nearest neighbours returned by the index search.
RECURSIVE AddNeighbors(_, _, _)
AddNeighbors(acc, questionId, neighbors) ==
  IF Len(neighbors) = 0 THEN acc
  ELSE AddNeighbors(
         IF Head(neighbors) = questionId \/ Included(acc, Head(neighbors)) THEN acc
         ELSE Append(acc, [question |-> Head(neighbors), similarity |-> 60]),
         questionId, Tail(neighbors))

\* The loop over the previous answers, from position i on; similarIdx holds the
\* positions whose answer has cosine similarity > 0.75 with the new answer.
RECURSIVE AddSimilarAnswers(_, _, _, _, _)
AddSimilarAnswers(acc, meta, previousAnswers, similarIdx, i) ==
  IF i > Len(previousAnswers) THEN acc
  ELSE AddSimilarAnswers(
         IF Included(acc, previousAnswers[i].questionId) THEN acc
         ELSE IF ~HasQuestion(meta, previousAnswers[i].questionId) THEN acc
         ELSE IF i \in similarIdx
              THEN Append(acc, [question |-> previousAnswers[i].questionId, similarity |-> 70])
              ELSE acc,
         meta, previousAnswers, similarIdx, i + 1)

\* Insert x into a sequence sorted by similarity descending, after its equals.
RECURSIVE InsertBySimilarity(_, _)
InsertBySimilarity(sorted, x) ==
  IF Len(sorted) = 0 THEN << x >>
  ELSE IF Head(sorted).similarity >= x.similarity
       THEN << Head(sorted) >> \o InsertBySimilarity(Tail(sorted), x)
       ELSE << x >> \o sorted

\* Array.prototype.sort((a, b) => b.similarity - a.similarity): stable.
RECURSIVE SortBySimilarity(_)
SortBySimilarity(s) ==
  IF Len(s) = 0 THEN << >>
  ELSE InsertBySimilarity(SortBySimilarity(SubSeq(s, 1, Len(s) - 1)), s[Len(s)])

\* previousAnswers.some(pa => pa.questionId === id)
PreviouslyAnswered(previousAnswers, id) ==
  \E i \in 1..Len(previousAnswers) : previousAnswers[i].questionId = id

\* previousAnswers.find(pa => pa.questionId === id).answer
PreviousAnswerText(previousAnswers, id) ==
  previousAnswers[CHOOSE i \in 1..Len(previousAnswers) :
                    /\ previousAnswers[i].questionId = id
                    /\ \A j \in 1..(i - 1) : previousAnswers[j].questionId # id].answer

\* .slice(0, 5)
CapCandidates(sorted) == SubSeq(sorted, 1, Min(MaxCandidates, Len(sorted)))

\* EmbeddingService.findPotentialContradictions, for a question that is in the
\* metadata.  neighbors is the list the index search returns for the question
\* text and similarIdx the previous answers similar to the new one (both are
\* answers of the embedding oracle).
FindPotentialContradictions(meta, questionId, answer, previousAnswers, neighbors, similarIdx) ==
  LET cur == FindQuestion(meta, questionId)
      explicit == AddExplicit(<< >>, meta, cur.relatedQuestionIds)
      tagged == AddTagOverlap(explicit, meta, cur, 1)
      vectored == IF Len(tagged) < 5 THEN AddNeighbors(tagged, questionId, neighbors) ELSE tagged
      similarQuestions ==
        IF TextLength(answer) > SubstantialAnswerLength
        THEN AddSimilarAnswers(vectored, meta, previousAnswers, similarIdx, 1)
        ELSE vectored
      answered == SelectSeq(similarQuestions,
                            LAMBDA sq : PreviouslyAnswered(previousAnswers, sq.question))
      top == CapCandidates(SortBySimilarity(answered))
  IN [i \in 1..Len(top) |->
        [question |-> top[i].question,
         similarity |-> top[i].similarity,
         previousAnswer |-> PreviousAnswerText(previousAnswers, top[i].question)]]

\* ------------------------------------------------------ contradiction judge
\* Texts the inference oracle returns for a candidate pair, and the token for a
\* failed call (generate throws).
AnalysisYes == "Conclusion: YES There is a contradiction because the answers cannot both hold."
AnalysisIsNot == "Conclusion: NO There is not a contradiction because the answers are consistent."
AnalysisNo == "Conclusion: NO. There is no contradiction between these answers."
OracleFailure == "<oracle call failed>"

\* What the oracle answers for a candidate pair in the session runs.
JudgeResponses == {AnalysisYes, AnalysisNo, OracleFailure}

\* analysis.toLowerCase().includes("contradiction")
IncludesContradiction(analysis) == analysis \in {AnalysisYes, AnalysisIsNot, AnalysisNo}

\* analysis.toLowerCase().includes("no contradiction")
IncludesNoContradiction(analysis) == analysis = AnalysisNo

\* The test submitAnswer applies to the oracle's text.
IndicatesContradiction(analysis) ==
  IncludesContradiction(analysis) /\ ~IncludesNoContradiction(analysis)

\* Two texts of the oracle without a conclusion line.
AnalysisInconsistent == "The two answers are inconsistent with each other."
AnalysisIncompatible == "The two positions are incompatible."

\* What the oracle answers for a candidate pair in the judging runs.
JudgeTexts ==
  {AnalysisYes, AnalysisIsNot, AnalysisNo, AnalysisInconsistent, AnalysisIncompatible,
   OracleFailure}

\* contradictionIndicators and negationIndicators of
\* detectContradictionFromAnalysis, weights in hundredths.
ContradictionIndicators ==
  << [pattern |-> "contradicts|contradiction", weight |-> 30],
     [pattern |-> "inconsistent|inconsistency", weight |-> 25],
     [pattern |-> "conflicts with|conflict between", weight |-> 20],
     [pattern |-> "cannot be reconciled", weight |-> 30],
     [pattern |-> "mutually exclusive|incompatible", weight |-> 30],
     [pattern |-> "tension between|at odds with", weight |-> 15],
     [pattern |-> "opposes|opposing", weight |-> 20] >>

NegationIndicators ==
  << [pattern |-> "no contradiction", weight |-> 0 - 40],
     [pattern |-> "not contradictory", weight |-> 0 - 30],
     [pattern |-> "consistent|consistency", weight |-> 0 - 25],
     [pattern |-> "compatible", weight |-> 0 - 20],
     [pattern |-> "can be reconciled", weight |-> 0 - 30],
     [pattern |-> "align|aligns with", weight |-> 0 - 15],
     [pattern |-> "complement|complementary", weight |-> 0 - 20] >>

\* pattern.test(lowerAnalysis): an unanchored search, so "consistent" is found
\* inside "inconsistent" and "compatible" inside "incompatible".
PatternTest(pattern, analysis) ==
  CASE analysis = AnalysisYes -> pattern = "contradicts|contradiction"
    [] analysis = AnalysisIsNot ->
         pattern \in {"contradicts|contradiction", "consistent|consistency"}
    [] analysis = AnalysisNo -> pattern \in {"contradicts|contradiction", "no contradiction"}
    [] analysis = AnalysisInconsistent ->
         pattern \in {"inconsistent|inconsistency", "consistent|consistency"}
    [] analysis = AnalysisIncompatible ->
         pattern \in {"mutually exclusive|incompatible", "compatible"}
    [] OTHER -> FALSE

\* The two loops that add the weight of every indicator whose pattern is found.
RECURSIVE IndicatorScore(_, _, _)
IndicatorScore(indicators, analysis, i) ==
  IF i > Len(indicators) THEN 0
  ELSE (IF PatternTest(indicators[i].pattern, analysis) THEN indicators[i].weight ELSE 0)
       + IndicatorScore(indicators, analysis, i + 1)

\* conclusionMatch: /conclusion:?\s*(.*?)(?:\.|$)/i or
\* /there (is|is not|isn't) a contradiction/i finds something.
ConclusionMatch(analysis) == analysis \in {AnalysisYes, AnalysisIsNot, AnalysisNo}

\* /there is a contradiction|conclusion:\s*yes/i on the matched text.
PositiveConclusion(analysis) == analysis = AnalysisYes

\* /there (is not|isn't) a contradiction|no contradiction|conclusion:\s*no/i on
\* the matched text.
NegativeConclusion(analysis) == analysis \in {AnalysisIsNot, AnalysisNo}

\* ContradictionService.detectContradictionFromAnalysis (the later version).
DetectContradictionFromAnalysis(analysis) ==
  IF ConclusionMatch(analysis) /\ PositiveConclusion(analysis) THEN TRUE
  ELSE IF ConclusionMatch(analysis) /\ NegativeConclusion(analysis) THEN FALSE
  ELSE IndicatorScore(ContradictionIndicators, analysis, 1)
       + IndicatorScore(NegationIndicators, analysis, 1) > 10

\* ---------------------------------------------------------- session store

NoResolution ==
  [present |-> FALSE, explanation |-> "", overwrittenQuestionId |-> 0,
   newAnswer |-> NoText, timestamp |-> 0]

NoAnalysis ==
  [present |-> FALSE, frameworkAlignment |-> << >>, consistencyScore |-> 0]

\* What getUserSession returns null for.
NoSession ==
  [exists |-> FALSE, answers |-> << >>, contradictions |-> << >>,
   currentStage |-> 1, completedStages |-> << >>, analysis |-> NoAnalysis]

\* StorageService.createUserSession
CreateUserSession ==
  [exists |-> TRUE, answers |-> << >>, contradictions |-> << >>,
   currentStage |-> 1, completedStages |-> << >>, analysis |-> NoAnalysis]

\* StorageService.addUserAnswer
AddUserAnswer(session, answer) ==
  LET s == IF session.exists THEN session ELSE CreateUserSession
  IN [s EXCEPT !.answers = Append(@, answer)]

\* StorageService.addContradiction (the session exists)
AddContradiction(session, contradiction) ==
  [session EXCEPT !.contradictions = Append(@, contradiction)]

\* session.contradictions.findIndex(c => c.id === id), 0 for -1
ContradictionIndex(session, contradictionId) ==
  IF \E i \in 1..Len(session.contradictions) : session.contradictions[i].id = contradictionId
  THEN CHOOSE i \in 1..Len(session.contradictions) :
         /\ session.contradictions[i].id = contradictionId
         /\ \A j \in 1..(i - 1) : session.contradictions[j].id # contradictionId
  ELSE 0

\* session.answers.findIndex(a => a.questionId === id), 0 for -1
AnswerIndex(session, questionId) ==
  IF \E i \in 1..Len(session.answers) : session.answers[i].questionId = questionId
  THEN CHOOSE i \in 1..Len(session.answers) :
         /\ session.answers[i].questionId = questionId
         /\ \A j \in 1..(i - 1) : session.answers[j].questionId # questionId
  ELSE 0

\* The store's resolution as it would be if it recorded the resolution and
\* left the resolved flag alone.
StoreResolveContradictionUnmarked(session, contradictionId, resolution) ==
  LET contradictionIndex == ContradictionIndex(session, contradictionId)
      marked == [session EXCEPT
                   !.contradictions[contradictionIndex].resolution = resolution]
      answerIndex == AnswerIndex(session, resolution.overwrittenQuestionId)
  IN IF answerIndex # 0 /\ resolution.newAnswer # NoText
     THEN [marked EXCEPT !.answers[answerIndex].answer = resolution.newAnswer]
     ELSE marked

\* StorageService.resolveContradiction, for a contradiction id that is found.
StoreResolveContradiction(session, contradictionId, resolution) ==
  LET contradictionIndex == ContradictionIndex(session, contradictionId)
      marked == [session EXCEPT
                   !.contradictions[contradictionIndex].resolved = TRUE,
                   !.contradictions[contradictionIndex].resolution = resolution]
      answerIndex == AnswerIndex(session, resolution.overwrittenQuestionId)
  IN IF answerIndex # 0 /\ resolution.newAnswer # NoText
     THEN [marked EXCEPT !.answers[answerIndex].answer = resolution.newAnswer]
     ELSE marked

\* StorageService.updateSessionAnalysis
UpdateSessionAnalysis(session, analysis) == [session EXCEPT !.analysis = analysis]

\* The advance as it would be if it did not record the stage it leaves.
AdvanceUserStageUnrecorded(session) ==
  [session EXCEPT !.currentStage = @ + 1]

\* StorageService.advanceUserStage
AdvanceUserStage(session) ==
  [session EXCEPT
     !.completedStages = IF session.currentStage \in Range(@) THEN @
                         ELSE Append(@, session.currentStage),
     !.currentStage = @ + 1]

\* ---------------------------------------------------------------- analysis
\* The sum of f[x] over the finite set S.
RECURSIVE SetSum(_, _)
SetSum(S, f) ==
  IF S = {} THEN 0
  ELSE LET x == CHOOSE y \in S : TRUE IN f[x] + SetSum(S \ {x}, f)

\* session.contradictions.filter(c => c.resolved).length
ResolvedCount(session) ==
  Cardinality({i \in 1..Len(session.contradictions) : session.contradictions[i].resolved})

\* The scoring rule as it would be without the clamp to 0..100.
BaseConsistencyScoreUnclamped(totalContradictions, resolvedContradictions) ==
  IF totalContradictions > 0
  THEN 100 - (totalContradictions - resolvedContradictions) * 10 + resolvedContradictions * 5
  ELSE 100

\* The pure scoring rule, on the two counts analyzeUserFramework takes.
BaseConsistencyScore(totalContradictions, resolvedContradictions) ==
  IF totalContradictions > 0
  THEN Max(0, Min(100, 100 - (totalContradictions - resolvedContradictions) * 10
                           + resolvedContradictions * 5))
  ELSE 100

\* "Calculate base consistency score" of analyzeUserFramework.
HeuristicConsistencyScore(session) ==
  BaseConsistencyScore(Len(session.contradictions), ResolvedCount(session))

\* tagCounts[tag] times 2 * answers.length: the recency weight of the answer at
\* 0-based index i is 1 + 1.5 * i / n, that is (2n + 3i) / 2n.
ScaledTagCount(answers, qs, tag) ==
  LET n == Len(answers)
      hit == {i \in 1..n : /\ HasQuestion(qs, answers[i].questionId)
                           /\ tag \in FindQuestion(qs, answers[i].questionId).tags}
  IN SetSum(hit, [i \in hit |-> 2 * n + 3 * (i - 1)])

\* The keys of tagCounts.
CountedTags(answers, qs) ==
  UNION {FindQuestion(qs, answers[i].questionId).tags :
           i \in {j \in 1..Len(answers) : HasQuestion(qs, answers[j].questionId)}}

\* patternMatches[fw]: one per (pattern, answer) pair with answer.text.includes(pattern).
PatternMatchCount(answers, fw) ==
  SetSum(1..Len(answers), [i \in 1..Len(answers) |-> PatternMatches(fw, answers[i].answer)])

\* alignmentScore of a framework, times 2 * answers.length.
ScaledAlignmentScore(answers, qs, fw) ==
  LET tags == CountedTags(answers, qs)
  IN SetSum(tags, [t \in tags |-> TagPrincipleMatches(fw, t) * ScaledTagCount(answers, qs, t)])
     + PatternMatchCount(answers, fw) * 2 * (2 * Len(answers))

\* The normalisation to percentages at the end of performHeuristicAnalysis.
NormalizeAlignment(score) ==
  LET keys == DOMAIN score
      totalAlignment == SetSum(keys, score)
  IN IF totalAlignment > 0
     THEN [fw \in keys |-> RoundDiv(score[fw] * 100, totalAlignment)]
     ELSE [fw \in keys |-> RoundDiv(100, Cardinality(keys))]

\* AnalysisService.performHeuristicAnalysis (keyPrinciples, metaPrinciples and
\* subtlePatterns are lists of words no operation reads back and are left out).
PerformHeuristicAnalysis(answers, qs, consistencyScore) ==
  [present |-> TRUE,
   frameworkAlignment |->
     NormalizeAlignment([fw \in Range(FrameworkIds) |-> ScaledAlignmentScore(answers, qs, fw)]),
   consistencyScore |-> consistencyScore]

\* What ollamaClient.analyzeMoralFramework can return: JSON.parse of the text of
\* the oracle, which nothing validates, or an exception (ok = FALSE) when the
\* call fails or the text is not JSON.  The prompt's template has the keys
\* deontological, utilitarian, virtueEthics, careEthics and other.
TemplateAlignment(d, u, v, c, o) ==
  [fw \in {"deontological", "utilitarian", "virtueEthics", "careEthics", "other"} |->
     CASE fw = "deontological" -> d
       [] fw = "utilitarian" -> u
       [] fw = "virtueEthics" -> v
       [] fw = "careEthics" -> c
       [] OTHER -> o]

MoralFrameworkFailure ==
  [ok |-> FALSE, frameworkAlignment |-> << >>, consistencyScore |-> 0]

MoralFrameworkResponses ==
  { [ok |-> TRUE, frameworkAlignment |-> TemplateAlignment(40, 30, 20, 10, 0), consistencyScore |-> 75],
    [ok |-> TRUE, frameworkAlignment |-> TemplateAlignment(60, 60, 30, 0, 0), consistencyScore |-> 150],
    MoralFrameworkFailure }

\* AnalysisService.analyzeUserFramework, for an existing session, given the
\* oracle's response.
AnalyzeUserFramework(session, qs, llm) ==
  LET consistencyScore == HeuristicConsistencyScore(session)
      preliminaryAnalysis == PerformHeuristicAnalysis(session.answers, qs, consistencyScore)
  IN IF Len(session.answers) >= MinAnswersForOracle /\ llm.ok
     THEN [present |-> TRUE,
           frameworkAlignment |-> llm.frameworkAlignment,
           consistencyScore |-> RoundHalf(consistencyScore, llm.consistencyScore)]
     ELSE preliminaryAnalysis

\* --------------------------------------------------------- stage progression
\* answeredStageQuestions of evaluateStageProgression, as question ids.
AnsweredStageQuestions(session, qs, stage) ==
  {qs[i].id : i \in {j \in 1..Len(qs) :
                       /\ qs[j].stage = stage
                       /\ \E k \in 1..Len(session.answers) :
                            session.answers[k].questionId = qs[j].id}}

\* unresolvedContradictions of evaluateStageProgression, as positions.
UnresolvedInStage(session, qs, stage) ==
  {i \in 1..Len(session.contradictions) :
     /\ \E k \in 1..2 : session.contradictions[i].questionIds[k]
                          \in AnsweredStageQuestions(session, qs, stage)
     /\ ~session.contradictions[i].resolved}

StageVerdicts == {"YES", "NO", OracleFailure}

\* The evaluation as it would be if a failure of the oracle blocked the advance
\* like a negative verdict.
EvaluateStageProgressionFailClosed(session, qs, verdict) ==
  IF Cardinality(AnsweredStageQuestions(session, qs, session.currentStage)) < MinAnsweredInStage
  THEN [readyToAdvance |-> FALSE, reason |-> "answers"]
  ELSE IF UnresolvedInStage(session, qs, session.currentStage) # {}
  THEN [readyToAdvance |-> FALSE, reason |-> "contradictions"]
  ELSE IF /\ session.currentStage > 1
          /\ session.currentStage <= UniversalPrinciples
          /\ verdict # "YES"
  THEN [readyToAdvance |-> FALSE, reason |-> "understanding"]
  ELSE [readyToAdvance |-> TRUE, reason |-> "completed"]

\* AnalysisService.evaluateStageProgression, for an existing session, given
\* what the oracle would answer (stage verdict "YES ...", "NO ..." or a failure).
EvaluateStageProgression(session, qs, verdict) ==
  IF Cardinality(AnsweredStageQuestions(session, qs, session.currentStage)) < MinAnsweredInStage
  THEN [readyToAdvance |-> FALSE, reason |-> "answers"]
  ELSE IF UnresolvedInStage(session, qs, session.currentStage) # {}
  THEN [readyToAdvance |-> FALSE, reason |-> "contradictions"]
  ELSE IF /\ session.currentStage > 1
          /\ session.currentStage <= UniversalPrinciples
          /\ verdict = "NO"
  THEN [readyToAdvance |-> FALSE, reason |-> "understanding"]
  ELSE [readyToAdvance |-> TRUE, reason |-> "completed"]

\* ------------------------------------------------------------------- state
VARIABLES
  sessions,           \* the user files of the store: userId -> session
  questions,          \* questions.json of the knowledge base
  questionsMetadata,  \* the questions known to the embedding service
  resolveCount,       \* resolveContradiction calls made so far (the clock of new Date())
  last,               \* the last call: operation, arguments, outcome, return value
  calls               \* the getNextQuestion requests in flight: call -> its frame

vars == << sessions, questions, questionsMetadata, resolveCount, last, calls >>

UserIds == {"u1"}

\* The requests that can be in flight together, and the frame of one: where
\* it stands, the session object it holds, the stage it first read.
CallIds == {"a", "b"}

NoCalls == [c \in CallIds |-> [pc |-> "none", user |-> "", session |-> NoSession, stage |-> 0]]

\* Question ids given to submitAnswer; 0 is an id that no question has.
SubmitQuestionIds == 0..MaxSubmitId

\* The question a resolveContradiction request names as the one to overwrite.
OverwrittenQuestionIds == {1, 2}

\* Two results of the index search for a question text (10 neighbours each).
NeighborLists == { << 1, 2, 3, 4, 5, 6, 7, 8, 9, 10 >>, << 9, 10, 11, 12, 13, 14, 15, 16, 17, 18 >> }

\* What the embedding oracle answers during one submitAnswer: the neighbours of
\* the question and the previous answers similar to the new one, or a failure.
EmbeddingResults(previousAnswers) ==
  { [ok |-> TRUE, neighbors |-> n, similarIdx |-> sim] :
      n \in NeighborLists, sim \in {{}, 1..Len(previousAnswers)} }
  \cup { [ok |-> FALSE, neighbors |-> << >>, similarIdx |-> {}] }

Init ==
  /\ sessions = [u \in UserIds |-> NoSession]
  /\ questions = SeededQuestions
  /\ questionsMetadata = SeededQuestions
  /\ resolveCount = 0
  /\ last = [op |-> "init", user |-> "", ok |-> TRUE, arg |-> << >>, ret |-> << >>]
  /\ calls = NoCalls

\* The pair check as it would be if it compared the pair in the order given.
ExistingContradictionOrdered(session, a, b) ==
  LET hit == {i \in 1..Len(session.contradictions) :
                session.contradictions[i].questionIds = << a, b >>}
  IN IF hit = {} THEN 0 ELSE CHOOSE i \in hit : \A j \in hit : i <= j

\* session.contradictions.find(c => c.questionIds.includes(a) && c.questionIds.includes(b)),
\* as a position, 0 for undefined.
ExistingContradiction(session, a, b) ==
  LET hit == {i \in 1..Len(session.contradictions) :
                /\ a \in Range(session.contradictions[i].questionIds)
                /\ b \in Range(session.contradictions[i].questionIds)}
  IN IF hit = {} THEN 0 ELSE CHOOSE i \in hit : \A j \in hit : i <= j

\* The loop of submitAnswer over the candidates, from candidate i on.  responses[i]
\* is what the oracle answers for candidate i if it is asked.  The result is the
\* session as stored when the loop ends, whether it ended normally (ok) or by
\* the oracle's exception, and the ids of the contradictions collected.
RECURSIVE JudgeCandidates(_, _, _, _, _, _, _)
JudgeCandidates(session, questionId, answer, potentialContradictions, responses, i, found) ==
  IF i > Len(potentialContradictions)
  THEN [session |-> session, ok |-> TRUE, contradictions |-> found]
  ELSE LET potential == potentialContradictions[i]
           existing == ExistingContradiction(session, questionId, potential.question)
           contradiction ==
             [id |-> Len(session.contradictions) + 1,
              questionIds |-> << questionId, potential.question >>,
              answers |-> << answer, potential.previousAnswer >>,
              explanation |-> responses[i],
              resolved |-> FALSE,
              resolution |-> NoResolution]
       IN IF existing # 0
          THEN JudgeCandidates(session, questionId, answer, potentialContradictions, responses,
                               i + 1, Append(found, session.contradictions[existing].id))
          ELSE IF responses[i] = OracleFailure
          THEN [session |-> session, ok |-> FALSE, contradictions |-> found]
          ELSE IF IndicatesContradiction(responses[i])
          THEN JudgeCandidates(AddContradiction(session, contradiction), questionId, answer,
                               potentialContradictions, responses, i + 1,
                               Append(found, contradiction.id))
          ELSE JudgeCandidates(session, questionId, answer, potentialContradictions, responses,
                               i + 1, found)

\* RAGSystem.submitAnswer
SubmitAnswer(u) ==
  \E questionId \in SubmitQuestionIds, answer \in AnswerTexts :
    /\ Len(sessions[u].answers) < MaxAnswers
    /\ LET arg == [questionId |-> questionId]
           created == IF sessions[u].exists THEN sessions[u] ELSE CreateUserSession
           saved == AddUserAnswer(created, [questionId |-> questionId, answer |-> answer])
           previousAnswers == SelectSeq(saved.answers, LAMBDA a : a.questionId # questionId)
       IN IF ~HasQuestion(questions, questionId)
          THEN /\ sessions' = [sessions EXCEPT ![u] = created]
               /\ last' = [op |-> "submitAnswer", user |-> u, ok |-> FALSE, arg |-> arg,
                           ret |-> << >>]
          ELSE \E emb \in EmbeddingResults(previousAnswers) :
                 IF ~HasQuestion(questionsMetadata, questionId) \/ ~emb.ok
                 THEN /\ sessions' = [sessions EXCEPT ![u] = saved]
                      /\ last' = [op |-> "submitAnswer", user |-> u, ok |-> FALSE, arg |-> arg,
                                  ret |-> << >>]
                 ELSE LET potentialContradictions ==
                            FindPotentialContradictions(questionsMetadata, questionId, answer,
                                                        previousAnswers, emb.neighbors,
                                                        emb.similarIdx)
                      IN \E responses \in [1..Len(potentialContradictions) -> JudgeResponses] :
                           LET judged == JudgeCandidates(saved, questionId, answer,
                                                         potentialContradictions, responses,
                                                         1, << >>)
                           IN /\ sessions' = [sessions EXCEPT ![u] = judged.session]
                              /\ last' = [op |-> "submitAnswer", user |-> u, ok |-> judged.ok,
                                          arg |-> arg, ret |-> << >>]
    /\ UNCHANGED << questions, questionsMetadata, resolveCount, calls >>

\* RAGSystem.resolveContradiction; contradiction id 0 is an id that no
\* contradiction has.
ResolveContradiction(u) ==
  \E contradictionId \in 0..Len(sessions[u].contradictions),
     overwrittenQuestionId \in OverwrittenQuestionIds,
     newAnswer \in NewAnswerTexts :
    /\ resolveCount < MaxResolutions
    /\ resolveCount' = resolveCount + 1
    /\ calls' = calls
    /\ LET arg == [contradictionId |-> contradictionId,
                   overwrittenQuestionId |-> overwrittenQuestionId,
                   newAnswer |-> newAnswer]
           resolution == [present |-> TRUE,
                          explanation |-> ResolutionExplanation,
                          overwrittenQuestionId |-> overwrittenQuestionId,
                          newAnswer |-> newAnswer,
                          timestamp |-> resolveCount + 1]
       IN IF ~sessions[u].exists \/ ContradictionIndex(sessions[u], contradictionId) = 0
          THEN /\ sessions' = sessions
               /\ last' = [op |-> "resolveContradiction", user |-> u, ok |-> FALSE,
                           arg |-> arg, ret |-> << >>]
          ELSE LET updated == StoreResolveContradiction(sessions[u], contradictionId, resolution)
               IN /\ sessions' = [sessions EXCEPT ![u] = updated]
                  /\ last' = [op |-> "resolveContradiction", user |-> u, ok |-> TRUE,
                              arg |-> arg,
                              ret |-> << >>]
    /\ UNCHANGED << questions, questionsMetadata >>

\* The filter as it would be if it kept a question that differs from some
\* answered one instead of from every answered one.
UnansweredQuestionsSomeDiffer(session, qs) ==
  {qs[i].id : i \in {j \in 1..Len(qs) :
                       /\ qs[j].stage = session.currentStage
                       /\ \E k \in 1..Len(session.answers) :
                            session.answers[k].questionId # qs[j].id}}

\* unansweredQuestions of getNextQuestion, as question ids.
UnansweredQuestions(session, qs) ==
  {qs[i].id : i \in {j \in 1..Len(qs) :
                       /\ qs[j].stage = session.currentStage
                       /\ \A k \in 1..Len(session.answers) :
                            session.answers[k].questionId # qs[j].id}}

\* The recursion as it would be if the test let the last stage advance too.
RECURSIVE AdvanceWhileExhaustedThroughLast(_, _)
AdvanceWhileExhaustedThroughLast(session, qs) ==
  IF UnansweredQuestions(session, qs) = {} /\ session.currentStage <= UniversalPrinciples
  THEN AdvanceWhileExhaustedThroughLast(AdvanceUserStage(session), qs)
  ELSE session

\* The recursion of getNextQuestion: while the stage has no unanswered question
\* and is below the last stage, advance and look again.
RECURSIVE AdvanceWhileExhausted(_, _)
AdvanceWhileExhausted(session, qs) ==
  IF UnansweredQuestions(session, qs) = {} /\ session.currentStage < UniversalPrinciples
  THEN AdvanceWhileExhausted(AdvanceUserStage(session), qs)
  ELSE session

\* What the question generation at the last stage can do: succeed, fail in
\* the oracle that writes the question, or fail in the embedding of the saved
\* question.
Generations == {"generated", "oracleFailure", "embeddingFailure"}

\* The question getNextQuestion creates at the last stage.
NewQuestion(qs, stage) ==
  [id |-> Len(qs) + 1, stage |-> stage, tags |-> {"generated", "universal-principles"},
   relatedQuestionIds |-> << >>]

\* RAGSystem.getNextQuestion.  The session is stored as the recursion leaves
\* it (arg.stage is the stage it was at when the call began); the question returned is a random unanswered one of the final stage or,
\* at the last stage with none left, a generated one.
GetNextQuestion(u) ==
  LET created == IF sessions[u].exists THEN sessions[u] ELSE CreateUserSession
      final == AdvanceWhileExhausted(created, questions)
      unanswered == UnansweredQuestions(final, questions)
      newQuestion == NewQuestion(questions, final.currentStage)
  IN /\ sessions' = [sessions EXCEPT ![u] = final]
     /\ resolveCount' = resolveCount
     /\ calls' = calls
     /\ IF unanswered # {}
        THEN /\ \E q \in unanswered :
                  last' = [op |-> "getNextQuestion", user |-> u, ok |-> TRUE,
                           arg |-> [stage |-> created.currentStage],
                           ret |-> [question |-> q]]
             /\ UNCHANGED << questions, questionsMetadata >>
        ELSE /\ Len(questions) < Len(SeededQuestions) + MaxGenerated
             /\ \E generation \in Generations :
                  /\ questions' = IF generation = "oracleFailure" THEN questions
                                  ELSE Append(questions, newQuestion)
                  /\ questionsMetadata' = IF generation = "generated"
                                          THEN Append(questionsMetadata, newQuestion)
                                          ELSE questionsMetadata
                  /\ last' = [op |-> "getNextQuestion", user |-> u,
                              ok |-> generation = "generated",
                              arg |-> [stage |-> created.currentStage],
                              ret |-> IF generation = "generated"
                                      THEN [question |-> newQuestion.id] ELSE << >>]

\* AnalysisService.evaluateStageProgression (it throws when there is no session);
\* arg.verdict is what the oracle answers if it is asked.
EvaluateProgression(u) ==
  \E verdict \in StageVerdicts :
    /\ last' = IF sessions[u].exists
               THEN [op |-> "evaluateStageProgression", user |-> u, ok |-> TRUE,
                     arg |-> [verdict |-> verdict],
                     ret |-> EvaluateStageProgression(sessions[u], questions, verdict)]
               ELSE [op |-> "evaluateStageProgression", user |-> u, ok |-> FALSE, arg |-> << >>,
                     ret |-> << >>]
    /\ UNCHANGED << sessions, questions, questionsMetadata, resolveCount, calls >>

\* AnalysisService.analyzeUserFramework: it returns the analysis and stores
\* nothing.  heuristicScore is the local consistencyScore before the blend,
\* oracleScore the consistencyScore of the oracle's analysis when it was used.
AnalyzeFramework(u) ==
  \E llm \in MoralFrameworkResponses :
    /\ last' = IF sessions[u].exists
               THEN [op |-> "analyzeUserFramework", user |-> u, ok |-> TRUE, arg |-> << >>,
                     ret |-> [analysis |-> AnalyzeUserFramework(sessions[u], questions, llm),
                              heuristicScore |-> HeuristicConsistencyScore(sessions[u]),
                              oracleUsed |-> Len(sessions[u].answers) >= MinAnswersForOracle
                                             /\ llm.ok,
                              oracleScore |-> IF Len(sessions[u].answers) >= MinAnswersForOracle
                                                 /\ llm.ok
                                              THEN llm.consistencyScore ELSE 0]]
               ELSE [op |-> "analyzeUserFramework", user |-> u, ok |-> FALSE, arg |-> << >>,
                     ret |-> << >>]
    /\ UNCHANGED << sessions, questions, questionsMetadata, resolveCount, calls >>

\* RAGSystem.analyzeUserFramework (the ANALYZE_FRAMEWORK request): the oracle's
\* parsed response is stored and returned as it is; a failure of the oracle is
\* thrown to the caller.
RagAnalyzeFramework(u) ==
  \E llm \in MoralFrameworkResponses :
    /\ IF sessions[u].exists /\ llm.ok
       THEN LET analysis == [present |-> TRUE,
                             frameworkAlignment |-> llm.frameworkAlignment,
                             consistencyScore |-> llm.consistencyScore]
            IN /\ sessions' = [sessions EXCEPT ![u] = UpdateSessionAnalysis(@, analysis)]
               /\ last' = [op |-> "ragAnalyzeUserFramework", user |-> u, ok |-> TRUE,
                           arg |-> << >>,
                           ret |-> [analysis |-> analysis,
                                    heuristicScore |-> HeuristicConsistencyScore(sessions[u]),
                                    oracleUsed |-> TRUE,
                                    oracleScore |-> llm.consistencyScore]]
       ELSE /\ sessions' = sessions
            /\ last' = [op |-> "ragAnalyzeUserFramework", user |-> u, ok |-> FALSE,
                        arg |-> << >>, ret |-> << >>]
    /\ UNCHANGED << questions, questionsMetadata, resolveCount, calls >>

Next ==
  \E u \in UserIds :
    \/ SubmitAnswer(u)
    \/ ResolveContradiction(u)
    \/ GetNextQuestion(u)
    \/ EvaluateProgression(u)
    \/ AnalyzeFramework(u)
    \/ RagAnalyzeFramework(u)

Spec == Init /\ [][Next]_vars

\* ------------------------------------------------------------ scoring runs
\* The pairs (current question, earlier question) among the first n questions,
\* in the order in which answering 1, 2, ..., n can detect them.
RECURSIVE PairsUpTo(_)
PairsUpTo(n) ==
  IF n < 2 THEN << >> ELSE PairsUpTo(n - 1) \o [i \in 1..(n - 1) |-> << n, i >>]

\* The least n whose pairs number at least k.
RECURSIVE AnsweredFor(_, _)
AnsweredFor(k, n) == IF Len(PairsUpTo(n)) >= k THEN n ELSE AnsweredFor(k, n + 1)

\* A session as submitAnswer and resolveContradiction leave it after the
\* questions 1..n were answered once each, `unresolved + resolved` pairs were
\* judged contradictory and the first `resolved` of them were resolved, each
\* call renewing the answer to the current question with the same text.
ScoreSession(unresolved, resolved) ==
  LET total == unresolved + resolved
      n == AnsweredFor(total, 1)
      pairs == PairsUpTo(n)
  IN [exists |-> TRUE,
      answers |-> [i \in 1..n |-> [questionId |-> i, answer |-> TextLong]],
      contradictions |->
        [i \in 1..total |->
           [id |-> i,
            questionIds |-> pairs[i],
            answers |-> << TextLong, TextLong >>,
            explanation |-> AnalysisYes,
            resolved |-> i <= resolved,
            resolution |-> IF i <= resolved
                           THEN [present |-> TRUE,
                                 explanation |-> ResolutionExplanation,
                                 overwrittenQuestionId |-> pairs[i][1],
                                 newAnswer |-> TextLong,
                                 timestamp |-> i]
                           ELSE NoResolution]],
      currentStage |-> 1, completedStages |-> << >>, analysis |-> NoAnalysis]

InitScore ==
  /\ \E total \in 0..MaxScoreContradictions :
       \E resolved \in 0..total :
         /\ sessions = [u \in UserIds |-> ScoreSession(total - resolved, resolved)]
         /\ resolveCount = resolved
  /\ questions = SeededQuestions
  /\ questionsMetadata = SeededQuestions
  /\ last = [op |-> "init", user |-> "", ok |-> TRUE, arg |-> << >>, ret |-> << >>]
  /\ calls = NoCalls

NextScore == \E u \in UserIds : AnalyzeFramework(u)

SpecScore == InitScore /\ [][NextScore]_vars

\* ---------------------------------------------------------- candidate runs
\* A question bank of MaxLinked + 1 questions of one stage, the odd ones
\* sharing two tags with the first and the even ones one tag, in which the
\* first question and the next k are linked to each other through
\* relatedQuestionIds.
LinkedQuestions(k) ==
  [i \in 1..(MaxLinked + 1) |->
     [id |-> i,
      stage |-> 1,
      tags |-> IF i % 2 = 1 THEN {"honesty", "rules"} ELSE {"honesty"},
      relatedQuestionIds |-> IF i = 1 THEN [j \in 1..k |-> j + 1]
                             ELSE IF i <= k + 1 THEN << 1 >>
                             ELSE << >>]]

\* What the index search returns in these banks: nothing, or every question.
LinkedNeighborLists == { << >>, [i \in 1..(MaxLinked + 1) |-> i] }

InitCand ==
  /\ \E k \in 0..MaxLinked :
       /\ questions = LinkedQuestions(k)
       /\ questionsMetadata = LinkedQuestions(k)
  /\ sessions = [u \in UserIds |-> NoSession]
  /\ resolveCount = 0
  /\ last = [op |-> "init", user |-> "", ok |-> TRUE, arg |-> << >>, ret |-> << >>]
  /\ calls = NoCalls

\* EmbeddingService.findPotentialContradictions called for question 1 when the
\* questions 2..answered + 1 have been answered.
FindCandidates ==
  \E answered \in 0..MaxLinked, answer \in {TextShort, TextLong},
     neighbors \in LinkedNeighborLists, similar \in BOOLEAN :
    LET previousAnswers == [i \in 1..answered |-> [questionId |-> i + 1, answer |-> TextLong]]
        similarIdx == IF similar THEN 1..answered ELSE {}
    IN /\ last' = [op |-> "findPotentialContradictions", user |-> "", ok |-> TRUE,
                   arg |-> [questionId |-> 1, answer |-> answer,
                            previousAnswers |-> previousAnswers,
                            neighbors |-> neighbors, similarIdx |-> similarIdx],
                   ret |-> FindPotentialContradictions(questionsMetadata, 1, answer,
                                                       previousAnswers, neighbors, similarIdx)]
       /\ UNCHANGED << sessions, questions, questionsMetadata, resolveCount, calls >>

NextCand == FindCandidates

SpecCand == InitCand /\ [][NextCand]_vars

\* ------------------------------------------------------------ judging runs
\* RAGSystem.submitAnswer with every text of JudgeTexts as the oracle's answer;
\* the call records the candidates it was given and what the oracle answers
\* for each.
SubmitAndJudge(u) ==
  \E questionId \in SubmitQuestionIds, answer \in AnswerTexts :
    /\ Len(sessions[u].answers) < MaxAnswers
    /\ LET arg == [questionId |-> questionId, candidates |-> << >>, responses |-> << >>]
           created == IF sessions[u].exists THEN sessions[u] ELSE CreateUserSession
           saved == AddUserAnswer(created, [questionId |-> questionId, answer |-> answer])
           previousAnswers == SelectSeq(saved.answers, LAMBDA a : a.questionId # questionId)
       IN IF ~HasQuestion(questions, questionId)
          THEN /\ sessions' = [sessions EXCEPT ![u] = created]
               /\ last' = [op |-> "submitAnswer", user |-> u, ok |-> FALSE, arg |-> arg,
                           ret |-> << >>]
          ELSE \E emb \in EmbeddingResults(previousAnswers) :
                 IF ~HasQuestion(questionsMetadata, questionId) \/ ~emb.ok
                 THEN /\ sessions' = [sessions EXCEPT ![u] = saved]
                      /\ last' = [op |-> "submitAnswer", user |-> u, ok |-> FALSE, arg |-> arg,
                                  ret |-> << >>]
                 ELSE LET potentialContradictions ==
                            FindPotentialContradictions(questionsMetadata, questionId, answer,
                                                        previousAnswers, emb.neighbors,
                                                        emb.similarIdx)
                      IN \E responses \in [1..Len(potentialContradictions) -> JudgeTexts] :
                           LET judged == JudgeCandidates(saved, questionId, answer,
                                                         potentialContradictions, responses,
                                                         1, << >>)
                           IN /\ sessions' = [sessions EXCEPT ![u] = judged.session]
                              /\ last' = [op |-> "submitAnswer", user |-> u, ok |-> judged.ok,
                                          arg |-> [questionId |-> questionId,
                                                   candidates |->
                                                     [i \in 1..Len(potentialContradictions) |->
                                                        potentialContradictions[i].question],
                                                   responses |-> responses],
                                          ret |-> judged.contradictions]
    /\ UNCHANGED << questions, questionsMetadata, resolveCount, calls >>

\* ContradictionService.analyzeContradiction: the verdict and the explanation
\* it returns for the oracle's text, or the oracle's exception.  It reads and
\* writes no session.
AnalyzeContradiction(u) ==
  \E analysis \in JudgeTexts :
    /\ last' = IF analysis = OracleFailure
               THEN [op |-> "analyzeContradiction", user |-> u, ok |-> FALSE,
                     arg |-> [analysis |-> analysis], ret |-> << >>]
               ELSE [op |-> "analyzeContradiction", user |-> u, ok |-> TRUE,
                     arg |-> [analysis |-> analysis],
                     ret |-> [isContradiction |-> DetectContradictionFromAnalysis(analysis),
                              explanation |-> analysis]]
    /\ UNCHANGED << sessions, questions, questionsMetadata, resolveCount, calls >>

NextJudge ==
  \E u \in UserIds :
    \/ SubmitAndJudge(u)
    \/ AnalyzeContradiction(u)

SpecJudge == Init /\ [][NextJudge]_vars

\* -------------------------------------------------------------- stage runs
\* What is on record between the first two questions of the current stage.
ContradictionKinds == {"none", "unresolved", "resolved"}

\* A session as getNextQuestion, submitAnswer and resolveContradiction leave it
\* at a stage: every question of the earlier stages answered (what made
\* getNextQuestion advance), the first `answered` questions of the stage
\* answered, and possibly a contradiction between the first two of them.
StageSession(stage, answered, kind) ==
  LET earlier == SelectSeq(SeededQuestions, LAMBDA q : q.stage < stage)
      current == SelectSeq(SeededQuestions, LAMBDA q : q.stage = stage)
      asked == earlier \o SubSeq(current, 1, answered)
  IN [exists |-> TRUE,
      answers |-> [i \in 1..Len(asked) |-> [questionId |-> asked[i].id, answer |-> TextLong]],
      contradictions |->
        IF kind = "none" THEN << >>
        ELSE << [id |-> 1,
                 questionIds |-> << current[2].id, current[1].id >>,
                 answers |-> << TextLong, TextLong >>,
                 explanation |-> AnalysisYes,
                 resolved |-> kind = "resolved",
                 resolution |-> IF kind = "resolved"
                                THEN [present |-> TRUE,
                                      explanation |-> ResolutionExplanation,
                                      overwrittenQuestionId |-> current[2].id,
                                      newAnswer |-> TextLong,
                                      timestamp |-> 1]
                                ELSE NoResolution] >>,
      currentStage |-> stage,
      completedStages |-> [i \in 1..(stage - 1) |-> i],
      analysis |-> NoAnalysis]

InitStage ==
  /\ \E stage \in 1..UniversalPrinciples, answered \in 0..MinAnsweredInStage,
        kind \in ContradictionKinds :
       /\ kind # "none" => answered >= 2
       /\ sessions = [u \in UserIds |-> StageSession(stage, answered, kind)]
       /\ resolveCount = IF kind = "resolved" THEN 1 ELSE 0
  /\ questions = SeededQuestions
  /\ questionsMetadata = SeededQuestions
  /\ last = [op |-> "init", user |-> "", ok |-> TRUE, arg |-> << >>, ret |-> << >>]
  /\ calls = NoCalls

NextStage ==
  \E u \in UserIds :
    \/ GetNextQuestion(u)
    \/ EvaluateProgression(u)

SpecStage == InitStage /\ [][NextStage]_vars

\* ------------------------------------------------- generated-question runs
\* The question bank after getNextQuestion generated g questions at the last
\* stage.
RECURSIVE GeneratedQuestions(_)
GeneratedQuestions(g) ==
  IF g = 0 THEN SeededQuestions
  ELSE Append(GeneratedQuestions(g - 1),
              NewQuestion(GeneratedQuestions(g - 1), UniversalPrinciples))

InitGenerated ==
  /\ \E g \in 1..MaxGeneratedBank :
       /\ questions = GeneratedQuestions(g)
       /\ questionsMetadata = GeneratedQuestions(g)
  /\ sessions = [u \in UserIds |-> NoSession]
  /\ resolveCount = 0
  /\ last = [op |-> "init", user |-> "", ok |-> TRUE, arg |-> << >>, ret |-> << >>]
  /\ calls = NoCalls

\* EmbeddingService.findPotentialContradictions called for the generated
\* question that is last in the bank, by a session that has answered some of
\* the earlier generated questions (submitAnswer takes any question of the
\* bank, which all users share).
FindGeneratedCandidates ==
  \E generated \in SUBSET ((Len(SeededQuestions) + 1)..(Len(questionsMetadata) - 1)),
     answer \in {TextShort, TextLong}, neighbors \in NeighborLists, similar \in BOOLEAN :
    LET answeredQuestions == SelectSeq(questionsMetadata, LAMBDA q : q.id \in generated)
        previousAnswers ==
          [i \in 1..Len(answeredQuestions) |->
             [questionId |-> answeredQuestions[i].id, answer |-> TextLong]]
        similarIdx == IF similar THEN 1..Len(previousAnswers) ELSE {}
        current == Len(questionsMetadata)
    IN /\ last' = [op |-> "findPotentialContradictions", user |-> "", ok |-> TRUE,
                   arg |-> [questionId |-> current, answer |-> answer,
                            previousAnswers |-> previousAnswers,
                            neighbors |-> neighbors, similarIdx |-> similarIdx],
                   ret |-> FindPotentialContradictions(questionsMetadata, current, answer,
                                                       previousAnswers, neighbors, similarIdx)]
       /\ UNCHANGED << sessions, questions, questionsMetadata, resolveCount, calls >>

NextGenerated == FindGeneratedCandidates

SpecGenerated == InitGenerated /\ [][NextGenerated]_vars

\* --------------------------------------------------------- shared-tag runs
\* A question bank of one stage in which question 1 is linked to question 2
\* and shares 1, 2, 3, 4 and 5 tags with the questions 2, 3, 4, 5 and 6.
SharedTagQuestions ==
  LET tags == << "honesty", "rules", "authority", "punishment", "obedience" >>
  IN [i \in 1..6 |->
        [id |-> i,
         stage |-> 1,
         tags |-> IF i = 1 THEN Range(tags) ELSE {tags[k] : k \in 1..(i - 1)},
         relatedQuestionIds |-> IF i = 1 THEN << 2 >> ELSE IF i = 2 THEN << 1 >> ELSE << >>]]

\* What the index search returns in this bank: nothing, or every question.
SharedTagNeighborLists == { << >>, QuestionIds(SharedTagQuestions) }

InitShared ==
  /\ questions = SharedTagQuestions
  /\ questionsMetadata = SharedTagQuestions
  /\ sessions = [u \in UserIds |-> NoSession]
  /\ resolveCount = 0
  /\ last = [op |-> "init", user |-> "", ok |-> TRUE, arg |-> << >>, ret |-> << >>]
  /\ calls = NoCalls

\* EmbeddingService.findPotentialContradictions called for question 1 by a
\* session that has answered some of the other questions.
FindSharedTagCandidates ==
  \E answered \in SUBSET (2..Len(questionsMetadata)), answer \in {TextShort, TextLong},
     neighbors \in SharedTagNeighborLists, similar \in BOOLEAN :
    LET answeredQuestions == SelectSeq(questionsMetadata, LAMBDA q : q.id \in answered)
        previousAnswers ==
          [i \in 1..Len(answeredQuestions) |->
             [questionId |-> answeredQuestions[i].id, answer |-> TextLong]]
        similarIdx == IF similar THEN 1..Len(previousAnswers) ELSE {}
    IN /\ last' = [op |-> "findPotentialContradictions", user |-> "", ok |-> TRUE,
                   arg |-> [questionId |-> 1, answer |-> answer,
                            previousAnswers |-> previousAnswers,
                            neighbors |-> neighbors, similarIdx |-> similarIdx],
                   ret |-> FindPotentialContradictions(questionsMetadata, 1, answer,
                                                       previousAnswers, neighbors, similarIdx)]
       /\ UNCHANGED << sessions, questions, questionsMetadata, resolveCount, calls >>

NextShared == FindSharedTagCandidates

SpecShared == InitShared /\ [][NextShared]_vars

\* ------------------------------------------------------------ two-user runs
\* Two users of the one knowledge base, each with a session file of its own.
TwoUserIds == {"u1", "u2"}

InitTwo ==
  /\ \E stages \in [TwoUserIds -> 1..UniversalPrinciples],
        answered \in [TwoUserIds -> 0..MinAnsweredInStage] :
       sessions = [u \in TwoUserIds |-> StageSession(stages[u], answered[u], "none")]
  /\ resolveCount = 0
  /\ questions = SeededQuestions
  /\ questionsMetadata = SeededQuestions
  /\ last = [op |-> "init", user |-> "", ok |-> TRUE, arg |-> << >>, ret |-> << >>]
  /\ calls = NoCalls

NextTwo ==
  \E u \in TwoUserIds :
    \/ GetNextQuestion(u)
    \/ EvaluateProgression(u)

SpecTwo == InitTwo /\ [][NextTwo]_vars

\* ------------------------------------------------------ answered-ahead runs
\* The session of a user at a stage who has answered every seeded question up
\* to stage `through` and the first `answered` of the stage after it:
\* submitAnswer takes an answer to any question of the bank, whatever the
\* stage the session is at.
AheadSession(stage, through, answered) ==
  LET earlier == SelectSeq(SeededQuestions, LAMBDA q : q.stage <= through)
      partial == SelectSeq(SeededQuestions, LAMBDA q : q.stage = through + 1)
      asked == earlier \o SubSeq(partial, 1, Min(answered, Len(partial)))
  IN [exists |-> TRUE,
      answers |-> [i \in 1..Len(asked) |-> [questionId |-> asked[i].id, answer |-> TextLong]],
      contradictions |-> << >>,
      currentStage |-> stage,
      completedStages |-> [i \in 1..(stage - 1) |-> i],
      analysis |-> NoAnalysis]

InitAhead ==
  /\ \E stage \in 1..UniversalPrinciples :
       \E through \in (stage - 1)..UniversalPrinciples, answered \in 0..(MinAnsweredInStage - 1) :
         sessions = [u \in UserIds |-> AheadSession(stage, through, answered)]
  /\ resolveCount = 0
  /\ questions = SeededQuestions
  /\ questionsMetadata = SeededQuestions
  /\ last = [op |-> "init", user |-> "", ok |-> TRUE, arg |-> << >>, ret |-> << >>]
  /\ calls = NoCalls

NextAhead == \E u \in UserIds : GetNextQuestion(u)

SpecAhead == InitAhead /\ [][NextAhead]_vars

\* ------------------------------------------------------------- climbing runs
\* The serialized question, answer and resolution operations of one user, from
\* a new user and from the sessions that answered ahead of their stage.
InitClimb ==
  /\ \/ sessions = [u \in UserIds |-> NoSession]
     \/ \E stage \in 1..UniversalPrinciples :
          \E through \in (stage - 1)..UniversalPrinciples,
             answered \in 0..(MinAnsweredInStage - 1) :
            sessions = [u \in UserIds |-> AheadSession(stage, through, answered)]
  /\ resolveCount = 0
  /\ questions = SeededQuestions
  /\ questionsMetadata = SeededQuestions
  /\ last = [op |-> "init", user |-> "", ok |-> TRUE, arg |-> << >>, ret |-> << >>]
  /\ calls = NoCalls

NextClimb ==
  \E u \in UserIds :
    \/ GetNextQuestion(u)
    \/ SubmitAnswer(u)
    \/ ResolveContradiction(u)

SpecClimb == InitClimb /\ [][NextClimb]_vars

\* ------------------------------------------------------------ concurrent runs
\* Two GET /api/question requests of one user in flight together.  Each await
\* of getNextQuestion and of advanceUserStage is a step of its own, and the
\* steps of the two requests interleave freely on the one session file.
\*
\* const session = await storageService.getUserSession(userId)
CallGetUserSession(c) ==
  LET call == calls[c]
      stored == sessions[call.user]
  IN /\ call.pc = "getUserSession"
     /\ calls' = [calls EXCEPT ![c] =
                    [call EXCEPT !.pc = IF stored.exists THEN "loadQuestions"
                                        ELSE "createUserSession",
                                 !.session = stored,
                                 !.stage = IF call.stage = 0 THEN stored.currentStage ELSE @]]
     /\ UNCHANGED << sessions, questions, questionsMetadata, resolveCount, last >>

\* session = await storageService.createUserSession(userId)
CallCreateUserSession(c) ==
  LET call == calls[c]
  IN /\ call.pc = "createUserSession"
     /\ sessions' = [sessions EXCEPT ![call.user] = CreateUserSession]
     /\ calls' = [calls EXCEPT ![c] = [call EXCEPT !.pc = "loadQuestions",
                                                   !.session = CreateUserSession]]
     /\ UNCHANGED << questions, questionsMetadata, resolveCount, last >>

\* const allQuestions = await storageService.loadQuestions(), the filter on
\* the session object the request holds, and the choice that follows: return
\* an unanswered question, advance, or generate.
CallLoadQuestions(c) ==
  LET call == calls[c]
      unanswered == UnansweredQuestions(call.session, questions)
  IN /\ call.pc = "loadQuestions"
     /\ IF unanswered # {}
        THEN /\ \E q \in unanswered :
                  last' = [op |-> "getNextQuestion", user |-> call.user, ok |-> TRUE,
                           arg |-> [stage |-> call.stage], ret |-> [question |-> q]]
             /\ calls' = [calls EXCEPT ![c] = [call EXCEPT !.pc = "returned"]]
        ELSE /\ calls' = [calls EXCEPT ![c] =
                            [call EXCEPT !.pc = IF call.session.currentStage < UniversalPrinciples
                                                THEN "advanceUserStage"
                                                ELSE "generateQuestion"]]
             /\ last' = last
     /\ UNCHANGED << sessions, questions, questionsMetadata, resolveCount >>

\* advanceUserStage, its read: let session = await this.getUserSession(userId)
CallAdvanceRead(c) ==
  LET call == calls[c]
      stored == sessions[call.user]
  IN /\ call.pc = "advanceUserStage"
     /\ calls' = [calls EXCEPT ![c] = [call EXCEPT !.pc = "saveUserSession",
                                                   !.session = stored]]
     /\ UNCHANGED << sessions, questions, questionsMetadata, resolveCount, last >>

\* advanceUserStage, its write: the stage of the session object read is
\* recorded and increased, await this.saveUserSession(session); then
\* return this.getNextQuestion(userId).
CallAdvanceSave(c) ==
  LET call == calls[c]
      advanced == AdvanceUserStage(call.session)
  IN /\ call.pc = "saveUserSession"
     /\ sessions' = [sessions EXCEPT ![call.user] = advanced]
     /\ calls' = [calls EXCEPT ![c] = [call EXCEPT !.pc = "getUserSession",
                                                   !.session = advanced]]
     /\ UNCHANGED << questions, questionsMetadata, resolveCount, last >>

\* The generation at the last stage, in one step: the question carries the
\* stage of the session object the request holds.
CallGenerateQuestion(c) ==
  LET call == calls[c]
      newQuestion == NewQuestion(questions, call.session.currentStage)
  IN /\ call.pc = "generateQuestion"
     /\ \E generation \in Generations :
          /\ questions' = IF generation = "oracleFailure" THEN questions
                          ELSE Append(questions, newQuestion)
          /\ questionsMetadata' = IF generation = "generated"
                                  THEN Append(questionsMetadata, newQuestion)
                                  ELSE questionsMetadata
          /\ last' = [op |-> "getNextQuestion", user |-> call.user,
                      ok |-> generation = "generated",
                      arg |-> [stage |-> call.stage],
                      ret |-> IF generation = "generated"
                              THEN [question |-> newQuestion.id] ELSE << >>]
     /\ calls' = [calls EXCEPT ![c] = [call EXCEPT !.pc = "returned"]]
     /\ UNCHANGED << sessions, resolveCount >>

InitRace ==
  /\ \/ sessions = [u \in UserIds |-> NoSession]
     \/ \E stage \in 1..UniversalPrinciples :
          \E through \in (stage - 1)..UniversalPrinciples,
             answered \in 0..(MinAnsweredInStage - 1) :
            sessions = [u \in UserIds |-> AheadSession(stage, through, answered)]
  /\ resolveCount = 0
  /\ questions = SeededQuestions
  /\ questionsMetadata = SeededQuestions
  /\ last = [op |-> "init", user |-> "", ok |-> TRUE, arg |-> << >>, ret |-> << >>]
  /\ \E u \in UserIds :
       calls = [c \in CallIds |-> [pc |-> "getUserSession", user |-> u,
                                   session |-> NoSession, stage |-> 0]]

NextRace ==
  \E c \in CallIds :
    \/ CallGetUserSession(c)
    \/ CallCreateUserSession(c)
    \/ CallLoadQuestions(c)
    \/ CallAdvanceRead(c)
    \/ CallAdvanceSave(c)
    \/ CallGenerateQuestion(c)

SpecRace == InitRace /\ [][NextRace]_vars

\* -------------------------------------------------------------- feedback runs
\* What the oracle that writes the feedback text can do.
FeedbackResponses == {"feedback", OracleFailure}

\* GET /api/analysis: AnalysisService.analyzeUserFramework, whose result is
\* returned and not stored, then AnalysisService.generateFeedback, which
\* builds its prompt from session.analysis when the session has one and
\* otherwise analyses (the oracle's cache answers the repeated request) and
\* stores the result.  ret.feedback.analysis is the analysis the prompt was
\* built from, ret.feedback.generated whether the oracle wrote the text.
GetAnalysis(u) ==
  \E llm \in MoralFrameworkResponses, response \in FeedbackResponses :
    /\ IF sessions[u].exists
       THEN LET analysis == AnalyzeUserFramework(sessions[u], questions, llm)
                cached == sessions[u].analysis
                used == IF cached.present THEN cached ELSE analysis
            IN /\ sessions' = IF cached.present THEN sessions
                              ELSE [sessions EXCEPT ![u] = UpdateSessionAnalysis(@, analysis)]
               /\ last' = [op |-> "getAnalysis", user |-> u, ok |-> TRUE, arg |-> << >>,
                           ret |-> [analysis |-> analysis,
                                    feedback |-> [analysis |-> used,
                                                  generated |-> response # OracleFailure]]]
       ELSE /\ sessions' = sessions
            /\ last' = [op |-> "getAnalysis", user |-> u, ok |-> FALSE, arg |-> << >>,
                        ret |-> << >>]
    /\ UNCHANGED << questions, questionsMetadata, resolveCount, calls >>

NextFeedback ==
  \E u \in UserIds :
    \/ GetAnalysis(u)
    \/ ResolveContradiction(u)

InitFeedback ==
  /\ \E total \in 0..MaxFeedbackContradictions :
       \E resolved \in 0..total :
         /\ sessions = [u \in UserIds |-> ScoreSession(total - resolved, resolved)]
         /\ resolveCount = resolved
  /\ questions = SeededQuestions
  /\ questionsMetadata = SeededQuestions
  /\ last = [op |-> "init", user |-> "", ok |-> TRUE, arg |-> << >>, ret |-> << >>]
  /\ calls = NoCalls

SpecFeedback == InitFeedback /\ [][NextFeedback]_vars

\* ------------------------------------------------------------------ claims
\* What the clamp of the documented scoring rule gives for U unresolved and R
\* resolved contradictions.
ClampedScore(U, R) ==
  LET raw == 100 - 10 * U + 5 * R
  IN IF raw < 0 THEN 0 ELSE IF raw > 100 THEN 100 ELSE raw

\* The last operation was a successful AnalysisService.analyzeUserFramework.
Analyzed == last.op = "analyzeUserFramework" /\ last.ok

\* The step is a successful resolveContradiction of user u.
Resolved(u) == last'.op = "resolveContradiction" /\ last'.ok /\ last'.user = u

\* C1: the consistencyScore that analyzeUserFramework returns lies in 0..100,
\* whether it is the heuristic score alone or the blend with the oracle's score.
C1_ConsistencyScoreInRange ==
  Analyzed => last.ret.analysis.consistencyScore \in 0..100

\* C2: in every analysis that analyzeUserFramework returns, the
\* frameworkAlignment percentages sum to 99..101 and every framework declared
\* in the knowledge base has an entry that is >= 0.
C2_AlignmentSumsToHundred ==
  Analyzed =>
    LET alignment == last.ret.analysis.frameworkAlignment
    IN /\ SetSum(DOMAIN alignment, alignment) \in 99..101
       /\ \A fw \in Range(FrameworkIds) : fw \in DOMAIN alignment /\ alignment[fw] >= 0

\* C3: a session never holds two contradictions for the same unordered pair of
\* question ids, however often answers are submitted again.
C3_OneContradictionPerPair ==
  \A u \in UserIds :
    \A i, j \in 1..Len(sessions[u].contradictions) :
      i # j => Range(sessions[u].contradictions[i].questionIds)
                 # Range(sessions[u].contradictions[j].questionIds)

\* C3, its case: a question was answered, a second answer to another question
\* was judged to contradict it, and the first question was then answered again
\* and judged against the second without failure.
C3_PairJudgedAgain ==
  \E u \in UserIds :
    /\ last.op = "submitAnswer" /\ last.ok
    /\ Len(sessions[u].answers) = 3
    /\ sessions[u].answers[1].questionId = sessions[u].answers[3].questionId
    /\ Len(sessions[u].contradictions) = 1
    /\ sessions[u].contradictions[1].questionIds
         = << sessions[u].answers[2].questionId, sessions[u].answers[1].questionId >>

C5_AdvanceNeedsThreeAnswers ==
  [][\A u \in UserIds :
       sessions'[u].currentStage > sessions[u].currentStage =>
         \A stage \in sessions[u].currentStage..(sessions'[u].currentStage - 1) :
           Cardinality(AnsweredStageQuestions(sessions[u], questions, stage))
             >= MinAnsweredInStage]_vars

\* C5, its case: getNextQuestion has moved a session to stage 2.
C5_AdvancedToStageTwo ==
  \E u \in UserIds :
    /\ last.op = "getNextQuestion" /\ last.user = u
    /\ sessions[u].currentStage = 2
    /\ sessions[u].completedStages = << 1 >>

\* C6: whenever a step raises currentStage, no unresolved contradiction touches
\* a question the user has answered in the stage the step leaves.
C6_AdvanceNeedsNoOpenContradiction ==
  [][\A u \in UserIds :
       sessions'[u].currentStage > sessions[u].currentStage =>
         UnresolvedInStage(sessions[u], questions, sessions[u].currentStage) = {}]_vars

\* C7: when evaluateStageProgression reports the contradiction block and
\* resolveContradiction resolves the only contradiction blocking the stage, then
\* evaluateStageProgression no longer reports that block, and at stage 1 it
\* reports the session ready to advance.
C7_ResolvingLastBlockerUnblocks ==
  [][\A u \in UserIds :
       ( /\ Resolved(u)
         /\ EvaluateStageProgression(sessions[u], questions, "YES").reason = "contradictions"
         /\ UnresolvedInStage(sessions[u], questions, sessions[u].currentStage)
              = {ContradictionIndex(sessions[u], last'.arg.contradictionId)} )
       => \A verdict \in StageVerdicts :
            LET after == EvaluateStageProgression(sessions'[u], questions', verdict)
            IN /\ after.reason # "contradictions"
               /\ sessions'[u].currentStage = 1 => after.readyToAdvance]_vars

\* C7, its case: the one resolution made so far resolved the contradictions of a
\* stage-1 session with three answered questions, which is now ready.
C7_UnblockedAfterResolve ==
  \E u \in UserIds :
    /\ last.op = "resolveContradiction" /\ last.ok /\ last.user = u
    /\ resolveCount = 1
    /\ sessions[u].currentStage = 1
    /\ Len(sessions[u].contradictions) = 1
    /\ sessions[u].contradictions[1].resolved
    /\ EvaluateStageProgression(sessions[u], questions, "YES")
         = [readyToAdvance |-> TRUE, reason |-> "completed"]

\* C8: a successful resolveContradiction(contradictionId, Q, X) leaves every
\* stored answer to Q with the text X and the contradiction resolved with a
\* timestamped resolution, and changes no answer to another question.
C8_ResolveOverwritesAnswer ==
  [][\A u \in UserIds :
       Resolved(u) =>
         LET arg == last'.arg
             index == ContradictionIndex(sessions[u], arg.contradictionId)
         IN /\ Len(sessions'[u].answers) = Len(sessions[u].answers)
            /\ \A i \in 1..Len(sessions'[u].answers) :
                 IF sessions'[u].answers[i].questionId = arg.overwrittenQuestionId
                 THEN sessions'[u].answers[i].answer = arg.newAnswer
                 ELSE sessions'[u].answers[i] = sessions[u].answers[i]
            /\ sessions'[u].contradictions[index].resolved
            /\ sessions'[u].contradictions[index].resolution.present
            /\ sessions'[u].contradictions[index].resolution.timestamp > 0]_vars

\* C9: a contradiction is created unresolved and without a resolution; its id,
\* questionIds, answers and explanation never change; once it is resolved, no
\* step changes its resolution again.
C9_ResolutionChangesOnce ==
  [][\A u \in UserIds :
       /\ Len(sessions'[u].contradictions) >= Len(sessions[u].contradictions)
       /\ \A i \in 1..Len(sessions'[u].contradictions) :
            LET after == sessions'[u].contradictions[i]
            IN IF i > Len(sessions[u].contradictions)
               THEN ~after.resolved /\ after.resolution = NoResolution
               ELSE LET before == sessions[u].contradictions[i]
                    IN /\ after.id = before.id
                       /\ after.questionIds = before.questionIds
                       /\ after.answers = before.answers
                       /\ after.explanation = before.explanation
                       /\ before.resolved => after = before]_vars

\* C10: the heuristic score analyzeUserFramework computes is
\* max(0, min(100, 100 - 10 U + 5 R)) for U unresolved and R resolved
\* contradictions, and it is the score returned when the oracle is not used.
C10_HeuristicScoreFormula ==
  Analyzed =>
    LET session == sessions[last.user]
        R == ResolvedCount(session)
        U == Len(session.contradictions) - R
    IN /\ last.ret.heuristicScore = ClampedScore(U, R)
       /\ ~last.ret.oracleUsed => last.ret.analysis.consistencyScore = ClampedScore(U, R)

\* C10, its case: a session with 2 unresolved and 1 resolved contradiction was
\* analysed without the oracle and scored 85.
C10_TwoOpenOneResolved ==
  /\ Analyzed
  /\ ~last.ret.oracleUsed
  /\ Len(sessions[last.user].contradictions) = 3
  /\ ResolvedCount(sessions[last.user]) = 1
  /\ last.ret.analysis.consistencyScore = 85

\* C11: with three or more answers and a parseable analysis of the oracle
\* scoring o, analyzeUserFramework returns round((h + o) / 2), h being the
\* heuristic score (s is that rounding exactly when h + o is 2s - 1 or 2s);
\* with fewer than three answers the oracle is not consulted and the score
\* returned is h.
C11_BlendedScoreIsRoundedMean ==
  Analyzed =>
    LET h == last.ret.heuristicScore
        o == last.ret.oracleScore
        s == last.ret.analysis.consistencyScore
    IN /\ last.ret.oracleUsed => h + o \in {2 * s - 1, 2 * s}
       /\ Len(sessions[last.user].answers) < 3 => ~last.ret.oracleUsed /\ s = h

\* C11, its case: three answers, one unresolved contradiction (h = 90) and an
\* oracle scoring 75 gave 83, the half rounded up.
C11_NinetyAndSeventyFiveGiveEightyThree ==
  /\ Analyzed
  /\ last.ret.oracleUsed
  /\ Len(sessions[last.user].answers) >= 3
  /\ last.ret.heuristicScore = 90
  /\ last.ret.oracleScore = 75
  /\ last.ret.analysis.consistencyScore = 83

\* C12: with three or more answers, a failure of the oracle (no response, a
\* timeout, text that is not JSON) does not fail the analysis, whichever entry
\* point asked for it: AnalysisService.analyzeUserFramework returns exactly
\* the heuristic score and the heuristic distribution, and so does the
\* ANALYZE_FRAMEWORK request of RAGSystem.
C12_OracleFailureFallsBackToHeuristic ==
  LET session == sessions[last.user]
      heuristic == PerformHeuristicAnalysis(session.answers, questions,
                                            HeuristicConsistencyScore(session))
  IN /\ (Analyzed /\ Len(session.answers) >= 3 /\ ~last.ret.oracleUsed) =>
          /\ last.ret.analysis.consistencyScore = heuristic.consistencyScore
          /\ last.ret.analysis.frameworkAlignment = heuristic.frameworkAlignment
     /\ (/\ last.op = "ragAnalyzeUserFramework"
         /\ session.exists
         /\ Len(session.answers) >= 3) =>
          /\ last.ok
          /\ last.ret.oracleUsed \/
               /\ last.ret.analysis.consistencyScore = heuristic.consistencyScore
               /\ last.ret.analysis.frameworkAlignment = heuristic.frameworkAlignment

\* The conclusion line an oracle text carries, read off the text: "YES", "NO"
\* or "none".
ConclusionLine(analysis) ==
  CASE analysis = AnalysisYes -> "YES"
    [] analysis \in {AnalysisIsNot, AnalysisNo} -> "NO"
    [] OTHER -> "none"

\* A submitAnswer step of user u that judged its candidates to the end.
JudgedToTheEnd(u) == last'.op = "submitAnswer" /\ last'.user = u /\ last'.ok

\* Candidate i of the step is a pair with no contradiction on record before it.
NewPair(u, i) ==
  ExistingContradiction(sessions[u], last'.arg.questionId, last'.arg.candidates[i]) = 0

\* After the step a contradiction is on record for candidate i of the step.
PairPersisted(u, i) ==
  ExistingContradiction(sessions'[u], last'.arg.questionId, last'.arg.candidates[i]) # 0

\* C13: when the oracle's text for a new candidate pair has an explicit
\* conclusion line, the verdict submitAnswer acts on follows it: after
\* "Conclusion: YES ..." a contradiction is persisted for the pair, after
\* "Conclusion: NO ..." none is.
C13_VerdictFollowsConclusionLine ==
  [][\A u \in UserIds :
       JudgedToTheEnd(u) =>
         \A i \in 1..Len(last'.arg.candidates) :
           NewPair(u, i) =>
             /\ ConclusionLine(last'.arg.responses[i]) = "YES" => PairPersisted(u, i)
             /\ ConclusionLine(last'.arg.responses[i]) = "NO" => ~PairPersisted(u, i)]_vars

\* C14: while submitAnswer judges the candidate pairs of one answer, a failure
\* of the oracle for one pair does not stop the batch: every other new pair is
\* still judged, so one the oracle calls a contradiction ("Conclusion: YES
\* ...") is persisted.
C14_OracleFailureSkipsOnePair ==
  [][\A u \in UserIds :
       (/\ last'.op = "submitAnswer"
        /\ last'.user = u
        /\ \E j \in 1..Len(last'.arg.candidates) : last'.arg.responses[j] = OracleFailure) =>
         \A i \in 1..Len(last'.arg.candidates) :
           (NewPair(u, i) /\ last'.arg.responses[i] = AnalysisYes) => PairPersisted(u, i)]_vars

\* How often stage occurs in a session's completedStages.
TimesCompleted(session, stage) ==
  Cardinality({i \in 1..Len(session.completedStages) : session.completedStages[i] = stage})

\* C15: a stage advance of a session at stage s leaves currentStage = s + 1
\* and s exactly once in completedStages, and changes neither the answers nor
\* the contradictions of the session.
C15_AdvanceRecordsStageOnce ==
  [][\A u \in UserIds :
       (sessions[u].exists /\ sessions'[u].currentStage # sessions[u].currentStage) =>
         /\ sessions'[u].currentStage = sessions[u].currentStage + 1
         /\ TimesCompleted(sessions'[u], sessions[u].currentStage) = 1
         /\ sessions'[u].answers = sessions[u].answers
         /\ sessions'[u].contradictions = sessions[u].contradictions]_vars

\* C15, its case: getNextQuestion was called at stage 3 and left the session
\* at stage 4 with the stages 1, 2, 3 completed.
C15_AdvancedFromStageThree ==
  /\ last.op = "getNextQuestion"
  /\ last.arg.stage = 3
  /\ sessions[last.user].currentStage = 4
  /\ sessions[last.user].completedStages = << 1, 2, 3 >>

\* C20: evaluateStageProgression is closed on the two structural checks and
\* open on the oracle: with fewer than 3 questions of the current stage
\* answered, or an unresolved contradiction touching one of them, the result
\* is not ready whatever the oracle answers; otherwise at stage 1 the result is
\* ready whatever the oracle would answer, at a later stage a failure of the
\* oracle gives ready and the verdict NO gives not ready.
C20_StructuralChecksClosedOracleOpen ==
  (last.op = "evaluateStageProgression" /\ last.ok) =>
    LET session == sessions[last.user]
        stage == session.currentStage
        answeredIds ==
          {q.id : q \in {x \in Range(questions) :
                           /\ x.stage = stage
                           /\ \E k \in 1..Len(session.answers) :
                                session.answers[k].questionId = x.id}}
        blocked ==
          \E i \in 1..Len(session.contradictions) :
            /\ ~session.contradictions[i].resolved
            /\ Range(session.contradictions[i].questionIds) \cap answeredIds # {}
        structural == Cardinality(answeredIds) >= 3 /\ ~blocked
        ready == last.ret.readyToAdvance
    IN /\ ~structural => ~ready
       /\ (structural /\ stage = 1) => ready
       /\ (structural /\ stage > 1 /\ last.arg.verdict = OracleFailure) => ready
       /\ (structural /\ stage > 1 /\ last.arg.verdict = "NO") => ~ready

\* C20, its case: at stage 2 with three answers of the stage and the one
\* contradiction resolved, the oracle failed and the result was ready.
C20_ReadyWhenOracleFails ==
  /\ last.op = "evaluateStageProgression"
  /\ last.ok
  /\ last.arg.verdict = OracleFailure
  /\ sessions[last.user].currentStage = 2
  /\ Len(sessions[last.user].contradictions) = 1
  /\ sessions[last.user].contradictions[1].resolved
  /\ last.ret.readyToAdvance

\* C16: every Contradiction the judge creates carries a confidence in [0, 1]
\* (in hundredths: 0..100), and every persisted Contradiction has a
\* confidence above 0.1.
C16_PersistedConfidenceAboveThreshold ==
  \A u \in UserIds :
    \A i \in 1..Len(sessions[u].contradictions) :
      /\ "confidence" \in DOMAIN sessions[u].contradictions[i]
      /\ sessions[u].contradictions[i].confidence \in 11..100

\* The sum of the weights of the rule-table phrases an oracle text contains,
\* each phrase counted as that phrase only, in hundredths.
PhraseScore(analysis) ==
  CASE analysis = AnalysisYes -> 30
    [] analysis = AnalysisIsNot -> 30 - 25
    [] analysis = AnalysisNo -> 30 - 40
    [] analysis = AnalysisInconsistent -> 25
    [] analysis = AnalysisIncompatible -> 30
    [] OTHER -> 0

\* C17: for an oracle text without a conclusion line, the verdict submitAnswer
\* acts on is "contradiction" exactly when the weights of the rule-table
\* phrases present in the text, each counted once and only as that phrase, sum
\* to more than 0.1; a text whose only indicator is "inconsistent" or
\* "incompatible" is judged a contradiction.
C17_LexicalVerdictAboveThreshold ==
  [][\A u \in UserIds :
       JudgedToTheEnd(u) =>
         \A i \in 1..Len(last'.arg.candidates) :
           (NewPair(u, i) /\ ConclusionLine(last'.arg.responses[i]) = "none") =>
             (PairPersisted(u, i) <=> PhraseScore(last'.arg.responses[i]) > 10)]_vars

\* C19: the tag-overlap signal contributes at most 3 candidates: a previously
\* answered question that is not linked to the current one and shares at least
\* 2 tags with it is listed with weight 0.8 + 0.05 * (shared tags), and of such
\* questions at most 3 are in the list.
C19_TagOverlapKeepsTopThree ==
  last.op = "findPotentialContradictions" =>
    LET cur == FindQuestion(questionsMetadata, last.arg.questionId)
        Shared(id) == Cardinality(FindQuestion(questionsMetadata, id).tags \cap cur.tags)
        tagged == {i \in 1..Len(last.ret) :
                     /\ last.ret[i].question \notin Range(cur.relatedQuestionIds)
                     /\ Shared(last.ret[i].question) >= 2}
    IN /\ \A i \in tagged : last.ret[i].similarity = 80 + 5 * Shared(last.ret[i].question)
       /\ Cardinality(tagged) <= 3

C21_QuestionBankReadOnly ==
  [][/\ questions' = questions
     /\ \A u \in UserIds : sessions'[u] # sessions[u] => last'.user = u]_vars

\* The questions getNextQuestion can return for a session from a bank; the
\* empty set stands for a question generated for the call.
ReturnableQuestions(session, qs) ==
  UnansweredQuestions(AdvanceWhileExhausted(session, qs), qs)

\* C22: the operations of one user leave the session of another user as it is
\* and do not change what the other user's operations return: after a step of
\* user v, getNextQuestion offers user u the questions it offered before.
C22_UsersDoNotInterfere ==
  [][\A u, v \in TwoUserIds :
       (u # v /\ last'.user = v) =>
         /\ sessions'[u] = sessions[u]
         /\ ReturnableQuestions(sessions[u], questions')
              = ReturnableQuestions(sessions[u], questions)]_vars

\* C23: whenever the analysed session has at least one unresolved
\* contradiction, its heuristic consistency score is strictly below 100,
\* however many contradictions it has resolved.
C23_UnresolvedScoresBelowHundred ==
  Analyzed =>
    LET session == sessions[last.user]
    IN Len(session.contradictions) > ResolvedCount(session) =>
         last.ret.heuristicScore < 100

\* C24: a getNextQuestion call that began with the session at stage s returns
\* after at most 6 - s stage advances, each followed by one recursive call;
\* every advance adds one to currentStage, so the advances made are the
\* difference between the stage stored at the end and the stage at the start.
C24_AtMostSixMinusStageAdvances ==
  last.op = "getNextQuestion" =>
    sessions[last.user].currentStage - last.arg.stage
      \in 0..(UniversalPrinciples - last.arg.stage)

\* C24, its case: a call that began at stage 1 with stages 1 to 5 exhausted
\* made five advances and returned a question of stage 6.
C24_FiveAdvancesFromStageOne ==
  /\ last.op = "getNextQuestion"
  /\ last.ok
  /\ last.arg.stage = 1
  /\ sessions[last.user].currentStage = UniversalPrinciples
  /\ last.ret.question \in 16..18

\* completedStages lists exactly the stages below currentStage, each once.
CompletedBelowCurrent(session) ==
  /\ Len(session.completedStages) = session.currentStage - 1
  /\ Range(session.completedStages) = 1..(session.currentStage - 1)

\* C25: in every state the serialized getNextQuestion, submitAnswer and
\* resolveContradiction calls reach from a new session, currentStage is
\* between 1 and 6 and completedStages is exactly the set of stages below
\* currentStage, each listed once; and no call decreases currentStage.
C25_StageWithinRangeAndMonotone ==
  /\ [](\A u \in UserIds :
         sessions[u].exists =>
           /\ sessions[u].currentStage \in 1..UniversalPrinciples
           /\ CompletedBelowCurrent(sessions[u]))
  /\ [][\A u \in UserIds : sessions'[u].currentStage >= sessions[u].currentStage]_vars

\* C25, its case: the session reached the last stage through getNextQuestion
\* with the five stages before it completed.
C25_ReachedLastStage ==
  /\ last.op = "getNextQuestion"
  /\ last.arg.stage < UniversalPrinciples
  /\ sessions[last.user].currentStage = UniversalPrinciples
  /\ sessions[last.user].completedStages = << 1, 2, 3, 4, 5 >>

\* Every stage below the session's currentStage is exhausted: the user has
\* answered each of its questions.
NoStageSkipped(session) ==
  \A stage \in 1..(session.currentStage - 1) :
    UnansweredQuestions([session EXCEPT !.currentStage = stage], questions) = {}

\* C26: with two getNextQuestion calls of one user in flight together the
\* session advances at most one stage for one exhausted stage: the stored
\* currentStage never exceeds 6 and no stage below it still has a question
\* the user has not answered.
C26_ConcurrentCallsAdvanceOnce ==
  \A u \in UserIds :
    sessions[u].exists =>
      /\ sessions[u].currentStage <= UniversalPrinciples
      /\ NoStageSkipped(sessions[u])

\* C27: the analysis generateFeedback builds the feedback from is never
\* stale: it is an analysis of the session's current answers and
\* contradictions (for some response of the oracle), also after a
\* resolveContradiction that followed an earlier analysis.
C27_FeedbackFromCurrentAnalysis ==
  (last.op = "getAnalysis" /\ last.ok) =>
    \E llm \in MoralFrameworkResponses :
      last.ret.feedback.analysis
        = AnalyzeUserFramework(sessions[last.user], questions, llm)

\* C28: a successful resolveContradiction whose overwrittenQuestionId is not
\* one of the two questions of the contradiction it resolves changes no
\* stored answer.
C28_ResolveTouchesOnlyThePair ==
  [][\A u \in UserIds :
       Resolved(u) =>
         LET arg == last'.arg
             index == ContradictionIndex(sessions[u], arg.contradictionId)
         IN arg.overwrittenQuestionId \notin Range(sessions[u].contradictions[index].questionIds)
              => sessions'[u].answers = sessions[u].answers]_vars

\* C29: a submitAnswer or resolveContradiction call that fails leaves the
\* stored sessions as they were: no session created, no answer or
\* contradiction added, nothing modified.
C29_FailedCallChangesNothing ==
  [][(last'.op \in {"submitAnswer", "resolveContradiction"} /\ ~last'.ok)
       => sessions' = sessions]_vars

\* C30: the question a successful getNextQuestion returns has not been
\* answered by the user and its stage is the currentStage the session is
\* stored with when the call returns, after any stage advance and also when
\* the question was generated at the last stage.
C30_ReturnedQuestionUnansweredAtCurrentStage ==
  (last.op = "getNextQuestion" /\ last.ok) =>
    LET session == sessions[last.user]
        q == last.ret.question
    IN /\ HasQuestion(questions, q)
       /\ FindQuestion(questions, q).stage = session.currentStage
       /\ \A k \in 1..Len(session.answers) : session.answers[k].questionId # q

\* C30, its case: a call that began at stage 5 advanced to the last stage,
\* found its questions answered and returned a generated question.
C30_GeneratedAfterAdvance ==
  /\ last.op = "getNextQuestion"
  /\ last.ok
  /\ last.arg.stage = 5
  /\ sessions[last.user].currentStage = UniversalPrinciples
  /\ last.ret.question > Len(SeededQuestions)

====
